---- MODULE Spec2Model ----
(***************************************************************************)
(* Stoic examples (src/Stoic/examples/before.cpp, after.cpp): the paired   *)
(* snippets modelled as independent state machines, one specification per  *)
(* snippet pair.                                                           *)
(***************************************************************************)
EXTENDS Integers, Sequences, FiniteSets, TLC

VARIABLES
    counters,   \* after.cpp:302   std::map<std::string,int> counters
    countersB,  \* before.cpp:222  std::map<std::string,int> counters
    call,       \* the last call made on the counters: number, function, argument, results
    game,       \* after.cpp:328   the caller's GameState
    tm,         \* the last tryMoveSafe call: number, move, result
    args,       \* the initial x and y of macroProblems / noMacroProblems
    mp,         \* before.cpp:57   macroProblems: position and locals
    nm,         \* after.cpp:74    noMacroProblems: position and locals
    heap,       \* the blocks allocated with new / make_unique
    rm,         \* before.cpp:17   a ResourceManager object and its life
    sf,         \* after.cpp:50    safeFunction: position and locals
    data,       \* after.cpp:243   SafeContainer<T>::data
    avg,        \* the last average() call and its result
    got,        \* the last get(index) call and its result
    route,      \* after.cpp:351   planRouteSafe: position and locals
    fact        \* after.cpp:233   factorial: argument, pending calls, result

varsCounters == <<counters, countersB, call>>

varsGame == <<game, tm>>

varsMacro == <<args, mp, nm>>

varsMem == <<heap, rm, sf>>

varsBox == <<data, avg, got>>

varsRoute == <<route>>

varsFact == <<fact>>

vars == <<varsCounters, varsGame, varsMacro, varsMem, varsBox, varsRoute, varsFact>>

\* what each snippet leaves alone: the other snippets
othersCounters == <<varsGame, varsMacro, varsMem, varsBox, varsRoute, varsFact>>

othersGame == <<varsCounters, varsMacro, varsMem, varsBox, varsRoute, varsFact>>

othersMacro == <<varsCounters, varsGame, varsMem, varsBox, varsRoute, varsFact>>

othersMem == <<varsCounters, varsGame, varsMacro, varsBox, varsRoute, varsFact>>

othersBox == <<varsCounters, varsGame, varsMacro, varsMem, varsRoute, varsFact>>

othersRoute == <<varsCounters, varsGame, varsMacro, varsMem, varsBox, varsFact>>

othersFact == <<varsCounters, varsGame, varsMacro, varsMem, varsBox, varsRoute>>

(***************************************************************************)
(* int: 32-bit signed.  Arithmetic whose result leaves the range is        *)
(* undefined behaviour: any of UBInts may be what the build leaves behind  *)
(* (INT_MIN is the two's complement wrap of INT_MAX + 1).                  *)
(***************************************************************************)
INT_MAX == 2147483647

INT_MIN == -2147483647 - 1

UBInts == {INT_MIN, 0, INT_MAX}

\* a + b leaves the range of int (decided without leaving it)
AddOverflows(a, b) ==
    \/ b > 0 /\ a > INT_MAX - b
    \/ b < 0 /\ a < INT_MIN - b

\* two's complement wrap of a + b, for a, b with AddOverflows(a, b)
WrapAdd(a, b) ==
    IF b > 0 THEN (a + INT_MIN) + (b + INT_MIN)
             ELSE (a - INT_MIN) + (b - INT_MIN)

\* the values a + b may evaluate to
AddInt(a, b) ==
    IF AddOverflows(a, b) THEN {WrapAdd(a, b)} \cup UBInts ELSE {a + b}

\* the mathematical sum a + b is negative
SumNegative(a, b) ==
    IF AddOverflows(a, b) THEN b < 0 ELSE a + b < 0

\* b is the mathematical successor of a; no int is the successor of INT_MAX
PlusOne(a, b) == a < INT_MAX /\ b = a + 1

(***************************************************************************)
(* FIX 10 / MISTAKE 10: the counters map.  A map is a function whose       *)
(* domain is its key set.                                                  *)
(***************************************************************************)
Names == {"a", "b"}

SetValues == {0, 5, INT_MAX - 1, INT_MAX}

MaxCalls == 4

End == "end"

\* std::map::find: the iterator to the entry of name, or end()
Find(m, name) == IF name \in DOMAIN m THEN name ELSE End

\* std::map::operator[]: a missing key is inserted with a value-initialised int
Subscript(m, name) == IF name \in DOMAIN m THEN m ELSE m @@ (name :> 0)

\* it->second++ / counters[name]++ : the values the entry may hold afterwards
PostIncrement(v) == AddInt(v, 1)

\* before.cpp: counters[name]++
incrementCounter(m, name) ==
    LET m1 == Subscript(m, name)
    IN  {[m1 EXCEPT ![name] = v] : v \in PostIncrement(m1[name])}

\* before.cpp: return counters[name]
getCounter(m, name) ==
    LET m1 == Subscript(m, name)
    IN  [ret |-> m1[name], map |-> m1]

Mut_incrementCounterSafe_zero(m, name) ==
    LET it == Find(m, name)
    IN  IF it # End
        THEN {[m EXCEPT ![it] = v] : v \in PostIncrement(m[it])}
        ELSE {[Subscript(m, name) EXCEPT ![name] = 0]}

\* after.cpp: find, then increment the entry found or insert 1
incrementCounterSafe(m, name) ==
    LET it == Find(m, name)
    IN  IF it # End
        THEN {[m EXCEPT ![it] = v] : v \in PostIncrement(m[it])}
        ELSE {[Subscript(m, name) EXCEPT ![name] = 1]}

Mut_getCounterSafe_subscript(m, name) ==
    LET m1 == Subscript(m, name)
    IN  [ret |-> m1[name], map |-> m1]

Mut_getCounterSafe_sentinel(m, name) ==
    LET it == Find(m, name)
    IN  IF it # End THEN [ret |-> m[it], map |-> m]
                    ELSE [ret |-> -1, map |-> m]

\* after.cpp: find, then the value found or 0
getCounterSafe(m, name) ==
    LET it == Find(m, name)
    IN  IF it # End THEN [ret |-> m[it], map |-> m]
                    ELSE [ret |-> 0, map |-> m]

\* after.cpp: counters[name] = value
setCounter(m, name, value) == [Subscript(m, name) EXCEPT ![name] = value]

NoCall == [n |-> 0, fn |-> "none", name |-> "", ret |-> 0, retB |-> 0]

IdleCounters == counters = <<>> /\ countersB = <<>> /\ call = NoCall

\* ---- after.cpp alone: incrementCounterSafe, getCounterSafe, setCounter ----
IncrementCounterSafe ==
    /\ call.n < MaxCalls
    /\ \E name \in Names :
         \E m \in incrementCounterSafe(counters, name) :
            /\ counters' = m
            /\ call' = [n |-> call.n + 1, fn |-> "incrementCounterSafe",
                        name |-> name, ret |-> 0, retB |-> 0]
    /\ UNCHANGED <<countersB, othersCounters>>

GetCounterSafe ==
    /\ call.n < MaxCalls
    /\ \E name \in Names :
         LET r == getCounterSafe(counters, name)
         IN  /\ counters' = r.map
             /\ call' = [n |-> call.n + 1, fn |-> "getCounterSafe",
                         name |-> name, ret |-> r.ret, retB |-> 0]
    /\ UNCHANGED <<countersB, othersCounters>>

SetCounter ==
    /\ call.n < MaxCalls
    /\ \E name \in Names, value \in SetValues :
         /\ counters' = setCounter(counters, name, value)
         /\ call' = [n |-> call.n + 1, fn |-> "setCounter",
                     name |-> name, ret |-> 0, retB |-> 0]
    /\ UNCHANGED <<countersB, othersCounters>>

\* ---- before.cpp and after.cpp driven by the same calls, from empty maps ----
IncrementBoth ==
    /\ call.n < MaxCalls
    /\ \E name \in Names :
         \E m \in incrementCounterSafe(counters, name) :
           \E mB \in incrementCounter(countersB, name) :
              /\ counters' = m
              /\ countersB' = mB
              /\ call' = [n |-> call.n + 1, fn |-> "increment",
                          name |-> name, ret |-> 0, retB |-> 0]
    /\ UNCHANGED othersCounters

GetBoth ==
    /\ call.n < MaxCalls
    /\ \E name \in Names :
         LET r  == getCounterSafe(counters, name)
             rB == getCounter(countersB, name)
         IN  /\ counters' = r.map
             /\ countersB' = rB.map
             /\ call' = [n |-> call.n + 1, fn |-> "get",
                         name |-> name, ret |-> r.ret, retB |-> rB.ret]
    /\ UNCHANGED othersCounters

\* C1: getCounterSafe(name) leaves the counters map as it was (same keys,
\* same values) and returns the stored value of name, or 0 when name is no key.
C1_GetCounterSafeFrame ==
    [][(call'.n # call.n /\ call'.fn = "getCounterSafe") =>
         /\ counters' = counters
         /\ DOMAIN counters' = DOMAIN counters
         /\ call'.ret = (IF call'.name \in DOMAIN counters
                         THEN counters[call'.name] ELSE 0)]_vars

\* a read of a missing key from a map that holds another key
C1_Witness ==
    /\ call.fn = "getCounterSafe"
    /\ call.name \notin DOMAIN counters
    /\ counters # <<>>
    /\ call.ret = 0

\* the other entries are untouched and the key set grows by name at most
IncrementFrame(k) ==
    /\ DOMAIN counters' = DOMAIN counters \cup {k}
    /\ \A j \in DOMAIN counters \ {k} : counters'[j] = counters[j]
    /\ k \notin DOMAIN counters => counters'[k] = 1

\* C2 (as stated): incrementCounterSafe(name) adds exactly 1 to the entry of
\* name when name is a key, inserts name with 1 when it is not, and leaves
\* every other entry unchanged.
C2_IncrementExact ==
    [][(call'.n # call.n /\ call'.fn = "incrementCounterSafe") =>
         LET k == call'.name
         IN  /\ IncrementFrame(k)
             /\ k \in DOMAIN counters => PlusOne(counters[k], counters'[k])]_vars

\* C2 (amended): as stated, for an entry below INT_MAX; the increment of an
\* entry equal to INT_MAX overflows int and its result is undefined.
C2_IncrementBelowMax ==
    [][(call'.n # call.n /\ call'.fn = "incrementCounterSafe") =>
         LET k == call'.name
         IN  /\ IncrementFrame(k)
             /\ (k \in DOMAIN counters /\ counters[k] < INT_MAX)
                   => counters'[k] = counters[k] + 1]_vars

\* an existing entry was incremented while another entry was present
C2_Witness ==
    /\ call.fn = "incrementCounterSafe"
    /\ Cardinality(DOMAIN counters) = 2
    /\ counters[call.name] = 6

\* C3: on the same calls from empty maps, every get returns the same value in
\* before.cpp and after.cpp, and every key of after's map holds the same value
\* in before's map.
C3_SameCounters ==
    /\ call.fn = "get" => call.ret = call.retB
    /\ \A k \in DOMAIN counters :
          k \in DOMAIN countersB /\ countersB[k] = counters[k]

\* a get after which before's map holds a key that after's map does not
C3_Witness ==
    /\ call.fn = "get"
    /\ counters # <<>>
    /\ DOMAIN countersB # DOMAIN counters
    /\ call.name \in DOMAIN counters
    /\ call.ret = 2
(***************************************************************************)
(* FIX 11: GameState and tryMoveSafe.                                      *)
(***************************************************************************)
Scores == {-3, 0, 2, INT_MIN, INT_MAX}

Moves == {-2, 1, 3}

MaxMoves == 2

MaxTries == 2

\* GameState::applyMove: moves.push_back(m); score += m
applyMove(s, m) ==
    {[score |-> v, moves |-> Append(s.moves, m)] : v \in AddInt(s.score, m)}

Mut_tryMoveSafe_byReference(caller, move) ==
    {[ret |-> ~(s.score < 0), caller |-> s] : s \in applyMove(caller, move)}

\* tryMoveSafe(GameState state, int move): state is a copy of the caller's
\* object, so the caller's object is what it was whatever happens to state
tryMoveSafe(caller, move) ==
    LET state == caller
    IN  {[ret |-> IF s.score < 0 THEN FALSE ELSE TRUE, caller |-> caller] :
            s \in applyMove(state, move)}

NoTry == [n |-> 0, move |-> 0, ret |-> TRUE]

IdleGame == game = [score |-> 0, moves |-> <<>>] /\ tm = NoTry

InitGame ==
    /\ \E sc \in Scores : game = [score |-> sc, moves |-> <<>>]
    /\ tm = NoTry

\* the caller plays a move on its own state
ApplyMove ==
    /\ Len(game.moves) < MaxMoves
    /\ \E m \in Moves : game' \in applyMove(game, m)
    /\ UNCHANGED <<tm, othersGame>>

\* the caller asks whether a move is possible
TryMoveSafe ==
    /\ tm.n < MaxTries
    /\ \E m \in Moves :
         \E r \in tryMoveSafe(game, m) :
            /\ game' = r.caller
            /\ tm' = [n |-> tm.n + 1, move |-> m, ret |-> r.ret]
    /\ UNCHANGED othersGame

\* C4 (as stated): tryMoveSafe never changes the caller's GameState, and it
\* returns false exactly when the caller's score plus move is negative.
C4_TryMoveExact ==
    [][tm'.n # tm.n =>
         /\ game' = game
         /\ tm'.ret = FALSE <=> SumNegative(game.score, tm'.move)]_vars

\* C4 (amended): tryMoveSafe never changes the caller's GameState; when score
\* plus move fits an int, it returns false exactly when that sum is negative.
C4_TryMoveInRange ==
    [][tm'.n # tm.n =>
         /\ game'.score = game.score
         /\ game'.moves = game.moves
         /\ ~AddOverflows(game.score, tm'.move) =>
               (tm'.ret = FALSE <=> game.score + tm'.move < 0)]_vars

\* a refused move on a state that has moves, left as it was
C4_Witness ==
    /\ tm.n > 0
    /\ tm.ret = FALSE
    /\ Len(game.moves) = 2
    /\ game.score = 1
    /\ tm.move = -2

(***************************************************************************)
(* FIX 2 / MISTAKE 2: MAX and SQUARE against max_of and square.            *)
(***************************************************************************)
XValues == {-2, 3, 5, INT_MAX - 1, INT_MAX}

YValues == {3, 4, 7}

\* |a|, for a above INT_MIN
Abs(a) == IF a < 0 THEN -a ELSE a

\* a * b leaves the range of int (decided without leaving it)
MulOverflows(a, b) ==
    IF a = 0 \/ b = 0 THEN FALSE
    ELSE IF (a > 0) # (b > 0)
         THEN LET n == IF a < 0 THEN a ELSE b
                  p == IF a < 0 THEN b ELSE a
              IN  n < (INT_MIN + (p - 1)) \div p
         ELSE IF a = INT_MIN \/ b = INT_MIN THEN TRUE
              ELSE Abs(b) > INT_MAX \div Abs(a)

\* the values a * b may evaluate to
MulInt(a, b) == IF MulOverflows(a, b) THEN UBInts ELSE {a * b}

\* int expensiveComputation() { return 42; }
expensiveComputation == 42

\* after.cpp: template max_of
max_of(a, b) == IF a > b THEN a ELSE b

\* after.cpp: template square
square(x) == MulInt(x, x)

\* after.cpp: max_of(x++, y): the argument is the old x, x is incremented once
CallMaxOf(x, y) ==
    {[val |-> max_of(x, y), x |-> x1] : x1 \in AddInt(x, 1)}

\* after.cpp: square(expensiveComputation()): one call
CallSquare ==
    LET e == expensiveComputation
    IN  {[val |-> v, calls |-> 1] : v \in square(e)}

Mut_MAX_once(x, y) ==
    {[val |-> IF x > y THEN x ELSE y, x |-> x1] : x1 \in AddInt(x, 1)}

\* before.cpp: MAX(x++, y) is ((x++) > (y) ? (x++) : (y)): the condition
\* increments x, and the chosen branch increments it again when x > y
MAX(x, y) ==
    UNION {IF x > y
           THEN {[val |-> x1, x |-> x2] : x2 \in AddInt(x1, 1)}
           ELSE {[val |-> y, x |-> x1]} : x1 \in AddInt(x, 1)}

\* before.cpp: SQUARE(expensiveComputation()) is
\* ((expensiveComputation()) * (expensiveComputation())): two calls
SQUARE ==
    LET e1 == expensiveComputation
        e2 == expensiveComputation
    IN  {[val |-> v, calls |-> 2] : v \in MulInt(e1, e2)}

Entry(x, y) ==
    [pc |-> "max", x |-> x, y |-> y, max_val |-> 0, squared |-> 0, calls |-> 0]

IdleMacro ==
    /\ args = [x |-> 5, y |-> 3]
    /\ mp = [Entry(5, 3) EXCEPT !.pc = "idle"]
    /\ nm = [Entry(5, 3) EXCEPT !.pc = "idle"]

InitMacro ==
    \E x \in XValues, y \in YValues :
       /\ args = [x |-> x, y |-> y]
       /\ mp = Entry(x, y)
       /\ nm = Entry(x, y)

\* before.cpp:62  int max_val = MAX(x++, y);
MacroMax ==
    /\ mp.pc = "max"
    /\ \E r \in MAX(mp.x, mp.y) :
          mp' = [mp EXCEPT !.pc = "square", !.max_val = r.val, !.x = r.x]
    /\ UNCHANGED <<args, nm, othersMacro>>

\* before.cpp:65  int squared = SQUARE(expensiveComputation());
MacroSquare ==
    /\ mp.pc = "square"
    /\ \E r \in SQUARE :
          mp' = [mp EXCEPT !.pc = "done", !.squared = r.val,
                           !.calls = @ + r.calls]
    /\ UNCHANGED <<args, nm, othersMacro>>

\* after.cpp:79  int max_val = max_of(x++, y);
NoMacroMax ==
    /\ nm.pc = "max"
    /\ \E r \in CallMaxOf(nm.x, nm.y) :
          nm' = [nm EXCEPT !.pc = "square", !.max_val = r.val, !.x = r.x]
    /\ UNCHANGED <<args, mp, othersMacro>>

\* after.cpp:82  int squared = square(expensiveComputation());
NoMacroSquare ==
    /\ nm.pc = "square"
    /\ \E r \in CallSquare :
          nm' = [nm EXCEPT !.pc = "done", !.squared = r.val,
                           !.calls = @ + r.calls]
    /\ UNCHANGED <<args, mp, othersMacro>>

BothDone == mp.pc = "done" /\ nm.pc = "done"

MaxN == 2

MaxRuns == 2

\* new int[n] / std::make_unique<int[]>(n): a fresh live block
New(h) == [heap |-> Append(h, [st |-> "live", frees |-> 0]), ptr |-> Len(h) + 1]

\* delete[] p
Delete(h, p) == [h EXCEPT ![p] = [st |-> "freed", frees |-> @.frees + 1]]

\* before.cpp: ResourceManager(size_t n) { data = new int[n]; size = n; }
ResourceManager(h, n) ==
    LET a == New(h)
    IN  [heap |-> a.heap, data |-> a.ptr, size |-> n]

\* before.cpp: ResourceManager::process(): the early return when size == 0
process_returnsEarly(size) == size = 0

\* before.cpp: ~ResourceManager() { delete[] data; }
ResourceManager_dtor(h, ptr) == Delete(h, ptr)

\* bool someCondition(): a helper declared for compilation; any outcome
someCondition == BOOLEAN

Mut_safeFunction_earlyReturn_leak(h, buffer) == h

\* after.cpp: return inside safeFunction: buffer's destructor frees the array
safeFunction_earlyReturn(h, buffer) == Delete(h, buffer)

\* after.cpp: the end of safeFunction's scope: buffer's destructor frees the array
safeFunction_scopeEnd(h, buffer) == Delete(h, buffer)

NoRM == [pc |-> "none", data |-> 0, size |-> 0, early |-> FALSE]

NoSF == [pc |-> "idle", buffer |-> 0, runs |-> 0, path |-> "none",
         processed |-> 0, sawLive |-> TRUE]

IdleMem == heap = <<>> /\ rm = NoRM /\ sf = NoSF

RM_Construct ==
    /\ rm.pc = "none"
    /\ \E n \in 0..MaxN :
         LET r == ResourceManager(heap, n)
         IN  /\ heap' = r.heap
             /\ rm' = [rm EXCEPT !.pc = "alive", !.data = r.data, !.size = n]
    /\ UNCHANGED <<sf, othersMem>>

RM_Process ==
    /\ rm.pc = "alive"
    /\ rm' = [rm EXCEPT !.early = process_returnsEarly(rm.size)]
    /\ UNCHANGED <<heap, sf, othersMem>>

RM_Destroy ==
    /\ rm.pc = "alive"
    /\ heap' = ResourceManager_dtor(heap, rm.data)
    /\ rm' = [rm EXCEPT !.pc = "destroyed"]
    /\ UNCHANGED <<sf, othersMem>>

\* after.cpp:51  auto buffer = std::make_unique<int[]>(100);
SafeFunction_Enter ==
    /\ sf.pc \in {"idle", "returned"}
    /\ sf.runs < MaxRuns
    /\ LET a == New(heap)
       IN  /\ heap' = a.heap
           /\ sf' = [sf EXCEPT !.pc = "cond", !.buffer = a.ptr,
                               !.runs = @ + 1, !.path = "none"]
    /\ UNCHANGED <<rm, othersMem>>

\* after.cpp:53-55  if (someCondition()) return;
SafeFunction_EarlyReturn ==
    /\ sf.pc = "cond"
    /\ TRUE \in someCondition
    /\ heap' = safeFunction_earlyReturn(heap, sf.buffer)
    /\ sf' = [sf EXCEPT !.pc = "returned", !.path = "early"]
    /\ UNCHANGED <<rm, othersMem>>

\* after.cpp:57  process(buffer.get());
SafeFunction_Process ==
    /\ sf.pc = "cond"
    /\ FALSE \in someCondition
    /\ sf' = [sf EXCEPT !.pc = "end", !.processed = @ + 1,
                        !.sawLive = @ /\ heap[sf.buffer].st = "live"]
    /\ UNCHANGED <<heap, rm, othersMem>>

\* after.cpp:59  the closing brace
SafeFunction_ScopeEnd ==
    /\ sf.pc = "end"
    /\ heap' = safeFunction_scopeEnd(heap, sf.buffer)
    /\ sf' = [sf EXCEPT !.pc = "returned", !.path = "normal"]
    /\ UNCHANGED <<rm, othersMem>>

\* C6: before.cpp: once ResourceManager::process() has returned early because
\* size == 0, the constructor's array is never freed, through the object's
\* lifetime and destruction.
C6_EarlyReturnLeaks ==
    rm.early => heap[rm.data].st = "live" /\ heap[rm.data].frees = 0

\* the blocks safeFunction has allocated and is done with
ReturnedBuffers ==
    {a \in 1..Len(heap) :
        /\ ~(rm.pc # "none" /\ a = rm.data)
        /\ ~(sf.pc \in {"cond", "end"} /\ a = sf.buffer)}

\* C7: on both exit paths of safeFunction the buffer allocated at entry is
\* freed exactly once, and process() only ever sees it while it is allocated.
C7_BufferFreedOnce ==
    /\ sf.pc \in {"cond", "end"} =>
          heap[sf.buffer] = [st |-> "live", frees |-> 0]
    /\ sf.pc = "returned" =>
          heap[sf.buffer] = [st |-> "freed", frees |-> 1]
    /\ \A a \in ReturnedBuffers : heap[a] = [st |-> "freed", frees |-> 1]
    /\ sf.sawLive

\* a second run left by the early return after a first run that called process()
C7_Witness ==
    /\ sf.pc = "returned"
    /\ sf.path = "early"
    /\ sf.runs = 2
    /\ sf.processed = 1
    /\ Cardinality(ReturnedBuffers) = 2

(***************************************************************************)
(* FIX 9: SafeContainer<T>, instantiated at T = unsigned char (StepCount). *)
(* Arithmetic on unsigned char is done in int and converted back modulo    *)
(* UCHAR_MAX + 1.  Positions are counted from 0 as in the code.            *)
(***************************************************************************)
UCHAR_MAX == 255

MaxLen == 3

Elems == {0, 7, 200}

\* the lengths at which size() reaches and passes the range of T
LongLengths == {UCHAR_MAX, UCHAR_MAX + 1}

Vectors ==
    UNION {[1..n -> Elems] : n \in 0..MaxLen}
      \cup {[i \in 1..n |-> e] : n \in LongLengths, e \in Elems}

Indexes == (0..(MaxLen + 1)) \cup {UCHAR_MAX - 1, UCHAR_MAX, UCHAR_MAX + 1}

\* what a read outside the vector or a division by zero may leave behind
UBElems == {0, UCHAR_MAX}

\* static_cast<T>(v) for v >= 0
CastT(v) == v % (UCHAR_MAX + 1)

\* sum += item on T: the sum is computed in int and converted back to T
AddT(a, b) == CastT(a + b)

\* T sum = T{}; for (const auto& item : data) sum += item;
\* AddT is associative, so the loop's result is the AddT of the sums of the
\* two halves; halving keeps the evaluation shallow for long vectors
RECURSIVE SumRange(_, _, _)
SumRange(d, lo, hi) ==
    IF lo > hi THEN 0
    ELSE IF lo = hi THEN AddT(0, d[lo])
    ELSE LET mid == (lo + hi) \div 2
         IN  AddT(SumRange(d, lo, mid), SumRange(d, mid + 1, hi))

SumLoop(d) == SumRange(d, 1, Len(d))

\* SafeContainer::average
average(d) ==
    IF Len(d) = 0
    THEN {[kind |-> "nullopt", v |-> 0, div0 |-> FALSE]}
    ELSE LET sum == SumLoop(d)
             n   == CastT(Len(d))
         IN  IF n = 0
             THEN {[kind |-> "trap", v |-> 0, div0 |-> TRUE]} \cup
                  {[kind |-> "value", v |-> u, div0 |-> TRUE] : u \in UBElems}
             ELSE {[kind |-> "value", v |-> CastT(sum \div n), div0 |-> FALSE]}

\* data[index]: std::vector::operator[]
ElementAt(d, index) == IF index < Len(d) THEN {d[index + 1]} ELSE UBElems

Mut_get_offByOne(d, index) ==
    IF index > Len(d)
    THEN {[kind |-> "nullopt", pos |-> 0, value |-> 0, reads |-> {}]}
    ELSE {[kind |-> "ref", pos |-> index, value |-> v, reads |-> {index}] :
             v \in ElementAt(d, index)}

\* SafeContainer::get
get(d, index) ==
    IF index >= Len(d)
    THEN {[kind |-> "nullopt", pos |-> 0, value |-> 0, reads |-> {}]}
    ELSE {[kind |-> "ref", pos |-> index, value |-> v, reads |-> {index}] :
             v \in ElementAt(d, index)}

NoAverage == [called |-> FALSE, kind |-> "none", v |-> 0, div0 |-> FALSE]

NoGet == [called |-> FALSE, index |-> 0, kind |-> "none", pos |-> 0,
          value |-> 0, reads |-> {}]

IdleBox == data = <<>> /\ avg = NoAverage /\ got = NoGet

InitBox == data \in Vectors /\ avg = NoAverage /\ got = NoGet

Average ==
    /\ \E r \in average(data) :
          avg' = [called |-> TRUE, kind |-> r.kind, v |-> r.v, div0 |-> r.div0]
    /\ UNCHANGED <<data, got, othersBox>>

Get ==
    /\ \E index \in Indexes :
         \E r \in get(data, index) :
            got' = [called |-> TRUE, index |-> index, kind |-> r.kind,
                    pos |-> r.pos, value |-> r.value, reads |-> r.reads]
    /\ UNCHANGED <<data, avg, othersBox>>

\* the sum of the elements lo..hi, as a mathematical integer
RECURSIVE MathSumRange(_, _, _)
MathSumRange(d, lo, hi) ==
    IF lo > hi THEN 0
    ELSE IF lo = hi THEN d[lo]
    ELSE LET mid == (lo + hi) \div 2
         IN  MathSumRange(d, lo, mid) + MathSumRange(d, mid + 1, hi)

MathSum(d) == MathSumRange(d, 1, Len(d))

\* C8: SafeContainer::average() returns nullopt exactly when the container is
\* empty, otherwise the sum of all elements divided by the element count, and
\* no call divides by zero.
C8_AverageSafe ==
    avg.called =>
       /\ ~avg.div0
       /\ avg.kind = "nullopt" <=> Len(data) = 0
       /\ Len(data) > 0 =>
             avg.kind = "value" /\ avg.v = MathSum(data) \div Len(data)

\* C9: SafeContainer::get(index) returns nullopt exactly when index >= size(),
\* otherwise a reference to the element at position index, and never reads
\* outside [0, size()).
C9_GetBoundsChecked ==
    got.called =>
       /\ \A p \in got.reads : p >= 0 /\ p < Len(data)
       /\ got.kind = "nullopt" <=> got.index >= Len(data)
       /\ got.kind \in {"nullopt", "ref"}
       /\ got.kind = "ref" =>
             got.pos = got.index /\ got.value = data[got.index + 1]

\* a refused read one past the last element of a non-empty container
C9_Witness ==
    /\ got.called
    /\ Len(data) = 3
    /\ got.index = Len(data)
    /\ got.kind = "nullopt"
    /\ got.reads = {}

(***************************************************************************)
(* FIX 12: planRouteSafe.  StepCount is unsigned char: ++i is computed in  *)
(* int and converted back modulo UCHAR_MAX + 1.                            *)
(***************************************************************************)
MaxIters == 300

Mut_LoopCondition_inclusive(i, maxSteps) == i <= maxSteps

\* i < maxSteps
LoopCondition(i, maxSteps) == i < maxSteps

\* ++i on a StepCount
PreIncrement(i) == (i + 1) % (UCHAR_MAX + 1)

NoRoute == [pc |-> "idle", maxSteps |-> 0, i |-> 0, iters |-> 0, wrapped |-> FALSE]

IdleRoute == route = NoRoute

\* planRouteSafe(maxSteps) entered, StepCount i = 0
InitRoute ==
    \E maxSteps \in 0..UCHAR_MAX :
       route = [NoRoute EXCEPT !.pc = "loop", !.maxSteps = maxSteps]

\* the condition holds: the body runs, then ++i
RouteIterate ==
    /\ route.pc = "loop"
    /\ LoopCondition(route.i, route.maxSteps)
    /\ route.iters < MaxIters
    /\ route' = [route EXCEPT !.i = PreIncrement(@), !.iters = @ + 1,
                              !.wrapped = @ \/ route.i = UCHAR_MAX]
    /\ UNCHANGED othersRoute

\* the condition fails: the loop is left
RouteExit ==
    /\ route.pc = "loop"
    /\ ~LoopCondition(route.i, route.maxSteps)
    /\ route' = [route EXCEPT !.pc = "done"]
    /\ UNCHANGED othersRoute

\* C10: for every maxSteps in 0..255 the loop of planRouteSafe ends, after
\* exactly maxSteps iterations, and its counter i never wraps past 255.
C10_LoopTerminates ==
    /\ <>(route.pc = "done")
    /\ [](route.pc = "done" => route.iters = route.maxSteps)
    /\ [](~route.wrapped /\ route.i = route.iters)

\* the longest plan: 255 iterations done, i at the top of its range
C10_Witness ==
    /\ route.pc = "done"
    /\ route.maxSteps = UCHAR_MAX
    /\ route.iters = UCHAR_MAX
    /\ route.i = UCHAR_MAX

(***************************************************************************)
(* Specifications: one per snippet pair; the other snippets stay idle.     *)
(***************************************************************************)
(***************************************************************************)
(* FIX 8: constexpr int factorial(int n).  The recursion is a stack of the *)
(* calls waiting for factorial(n - 1); the innermost call is in hand.      *)
(***************************************************************************)
MaxArg == 14

MaxDepth == 20

\* the arguments tried: both ends of int, around the base case, and past 12
FactArgs == {INT_MIN, -7} \cup (-2..MaxArg)

Mut_BaseCase_equal(n) == n = 1

\* n <= 1
BaseCase(n) == n <= 1

\* n - 1
Predecessor(n) == AddInt(n, -1)

\* n * factorial(n - 1), with r the value factorial(n - 1) returned
Product(n, r) == MulInt(n, r)

NoFact == [pc |-> "idle", n |-> 0, cur |-> 0, stack |-> <<>>, ret |-> 0,
           overflowed |-> FALSE]

IdleFact == fact = NoFact

\* factorial(n) called
InitFact ==
    \E n \in FactArgs :
       fact = [NoFact EXCEPT !.pc = "call", !.n = n, !.cur = n]

\* n <= 1 ? 1 : ...   the base case returns 1
FactorialBase ==
    /\ fact.pc = "call"
    /\ BaseCase(fact.cur)
    /\ fact' = [fact EXCEPT !.pc = "return", !.ret = 1]
    /\ UNCHANGED othersFact

\* ... : n * factorial(n - 1)   the call of factorial(n - 1)
FactorialRecurse ==
    /\ fact.pc = "call"
    /\ ~BaseCase(fact.cur)
    /\ Len(fact.stack) < MaxDepth
    /\ \E m \in Predecessor(fact.cur) :
          fact' = [fact EXCEPT !.cur = m, !.stack = Append(@, fact.cur),
                               !.overflowed = @ \/ AddOverflows(fact.cur, -1)]
    /\ UNCHANGED othersFact

\* factorial(n - 1) has returned to the call waiting for it: n * its result
FactorialMultiply ==
    /\ fact.pc = "return"
    /\ fact.stack # <<>>
    /\ LET n == fact.stack[Len(fact.stack)]
       IN  \E v \in Product(n, fact.ret) :
              fact' = [fact EXCEPT !.ret = v, !.cur = n,
                                   !.stack = SubSeq(@, 1, Len(@) - 1),
                                   !.overflowed = @ \/ MulOverflows(n, fact.ret)]
    /\ UNCHANGED othersFact

\* the outermost call returns to its caller
FactorialDone ==
    /\ fact.pc = "return"
    /\ fact.stack = <<>>
    /\ fact' = [fact EXCEPT !.pc = "done"]
    /\ UNCHANGED othersFact

\* 1!, 2!, ..., 12!
FactorialTable ==
    <<1, 2, 6, 24, 120, 720, 5040, 40320, 362880, 3628800, 39916800,
      479001600>>

\* what C11 says of a finished call
FactorialResult ==
    /\ fact.n <= 1 => fact.ret = 1
    /\ fact.n \in 2..12 =>
          /\ fact.ret = FactorialTable[fact.n]
          /\ ~fact.overflowed
          /\ fact.ret <= INT_MAX
    /\ fact.n = 5 => fact.ret = 120

\* C11: factorial(n) terminates for every int n (here: every n of FactArgs),
\* returns 1 for every n <= 1, negative n included, and n! for n in 2..12
\* with no int overflow on the way; factorial(5) = 120.
C11_FactorialCorrect ==
    /\ <>(fact.pc = "done")
    /\ [](fact.pc = "done" => FactorialResult)

\* factorial(12) finished with 12!, the largest factorial an int holds
C11_Witness ==
    /\ fact.pc = "done"
    /\ fact.n = 12
    /\ fact.ret = 479001600
    /\ ~fact.overflowed

\* every snippet but the named one is idle
IdleBut(snippet) ==
    /\ snippet = "counters" \/ IdleCounters
    /\ snippet = "game" \/ IdleGame
    /\ snippet = "macro" \/ IdleMacro
    /\ snippet = "mem" \/ IdleMem
    /\ snippet = "box" \/ IdleBox
    /\ snippet = "route" \/ IdleRoute
    /\ snippet = "fact" \/ IdleFact

InitCounters == IdleCounters /\ IdleBut("counters")

NextCounters ==
    \/ IncrementCounterSafe
    \/ GetCounterSafe
    \/ SetCounter

SpecCounters == InitCounters /\ [][NextCounters]_vars

InitPair == IdleCounters /\ IdleBut("counters")

NextPair ==
    \/ IncrementBoth
    \/ GetBoth

SpecPair == InitPair /\ [][NextPair]_vars

InitGameSpec == InitGame /\ IdleBut("game")

NextGame ==
    \/ ApplyMove
    \/ TryMoveSafe

SpecGame == InitGameSpec /\ [][NextGame]_vars

InitMacroSpec == InitMacro /\ IdleBut("macro")

NextMacro ==
    \/ MacroMax
    \/ MacroSquare
    \/ NoMacroMax
    \/ NoMacroSquare

SpecMacro == InitMacroSpec /\ [][NextMacro]_vars

InitMem == IdleMem /\ IdleBut("mem")

NextMem ==
    \/ RM_Construct
    \/ RM_Process
    \/ RM_Destroy
    \/ SafeFunction_Enter
    \/ SafeFunction_EarlyReturn
    \/ SafeFunction_Process
    \/ SafeFunction_ScopeEnd

SpecMem == InitMem /\ [][NextMem]_vars

InitBoxSpec == InitBox /\ IdleBut("box")

NextBox ==
    \/ Average
    \/ Get

SpecBox == InitBoxSpec /\ [][NextBox]_vars

InitRouteSpec == InitRoute /\ IdleBut("route")

NextRoute ==
    \/ RouteIterate
    \/ RouteExit

\* the loop is sequential code: a step that can be taken is taken
SpecRoute == InitRouteSpec /\ [][NextRoute]_vars /\ WF_vars(NextRoute)

InitFactSpec == InitFact /\ IdleBut("fact")

NextFact ==
    \/ FactorialBase
    \/ FactorialRecurse
    \/ FactorialMultiply
    \/ FactorialDone

\* the recursion is sequential code: a step that can be taken is taken
SpecFact == InitFactSpec /\ [][NextFact]_vars /\ WF_vars(NextFact)
====
